---- MODULE Spec2Model ----
(***************************************************************************)
(* AI RideWise (src/app.py): a Streamlit script that loads a pickled       *)
(* regression model once per process, reads eleven input widgets and, when *)
(* the "Predict Demand" button is pressed, calls the model over 7 hours    *)
(* (hourly mode) or 7 weekdays x 24 hours (daily mode) and shows a total,  *)
(* a table and a chart.                                                    *)
(*                                                                         *)
(* Streamlit re-executes the whole script on every user interaction.  One  *)
(* execution is modelled as: the top of the script (load_model, widgets,   *)
(* button test), then one step per call of predict(), then the rendering.  *)
(*                                                                         *)
(* Fractions: the four sliders temp/atemp/hum/windspeed are held in        *)
(* hundredths (0.5 is 50); a model output is held in tenths (-2.5 is -25). *)
(***************************************************************************)
EXTENDS Integers, Sequences, FiniteSets, TLC

VARIABLES
    disk,          \* the file at MODEL_PATH: whether it exists, and its content
    cache,         \* st.cache_resource entry of load_model (process lifetime)
    ioCount,       \* number of joblib.load calls made by the process
    inputs,        \* the widget values the script reads (season .. hr, mode)
    pc,            \* where the current script execution is
    model,         \* the script global `model`
    h,             \* loop variable h
    wd,            \* loop variable wd (daily)
    day_total,     \* accumulator day_total (daily)
    preds,         \* list preds (hourly)
    daily_values,  \* list daily_values (daily)
    calls,         \* rows handed to model.predict by the current execution
    shown          \* elements the current execution has put on the page

vars == <<disk, cache, ioCount, inputs, pc, model, h, wd, day_total, preds,
          daily_values, calls, shown>>

-----------------------------------------------------------------------------
(* Bounds of the model *)

\* joblib.load calls counted before further load attempts are cut off
MaxLoads == 2

-----------------------------------------------------------------------------
(* Program constants *)

\* range(7) of the hourly branch
HourlySteps == 7
\* range(7) of the daily branch
WeekDays == 7
\* variant: the inner loop stops one hour short
DayHours_short == 24 - 1

\* range(24) of the daily branch
DayHours == 24

FEATURES ==
    <<"season", "mnth", "hr", "holiday", "weekday",
      "workingday", "weathersit", "temp", "atemp", "hum", "windspeed">>

day_names == <<"Mon", "Tue", "Wed", "Thu", "Fri", "Sat", "Sun">>

\* os.path.join(ROOT_DIR, "bike_demand_model.pkl"), as path components
MODEL_PATH == <<"BASE_DIR", "..", "bike_demand_model.pkl">>

\* the text of st.error in load_model, as words (the leading emoji is "[x]")
NotFoundText == <<"[x]", "Model", "file", "not", "found">>

\* the options of the radio button
ModeOptions == <<"Hourly", "Daily">>

None == <<>>

-----------------------------------------------------------------------------
(* The widgets.  Defaults are the first option of a selectbox and the      *)
(* value argument of a slider.  The user moves a widget within the choices *)
(* listed here, all of them inside the widget's range.                     *)

DefaultInputs ==
    [season |-> 1, mnth |-> 1, weekday |-> 0, holiday |-> 0, workingday |-> 0,
     weathersit |-> 1, temp |-> 50, atemp |-> 50, hum |-> 60, windspeed |-> 30,
     hr |-> 12, mode |-> ModeOptions[1]]

WidgetChoices ==
    [season |-> {1, 2}, mnth |-> {1}, weekday |-> 0 .. 6, holiday |-> {0},
     workingday |-> {0}, weathersit |-> {1}, temp |-> {50, 80}, atemp |-> {50},
     hum |-> {60}, windspeed |-> {30}, hr |-> {12, 3},
     mode |-> {ModeOptions[1], ModeOptions[2]}]

WidgetNames == DOMAIN DefaultInputs

-----------------------------------------------------------------------------
(* The model artifact: an opaque regressor.  An artifact is a record of    *)
(* coefficients; its predict is a deterministic function of the row, read  *)
(* by column name.  It raises, or returns NaN, on the rows the artifact    *)
(* marks; otherwise it returns a number in tenths, possibly negative or    *)
(* fractional.                                                             *)

Column(row, name) ==
    row.values[CHOOSE i \in 1 .. Len(row.columns) : row.columns[i] = name]

\* Python's None where a model is expected (no cache entry, no global yet)
NoModel ==
    [name |-> "none", bias |-> 0, w_hr |-> 0, w_wd |-> 0, w_season |-> 0,
     badHr |-> -1, badWd |-> -1, badSeason |-> 0, bad |-> "raise"]

\* file content that joblib.load cannot unpickle
Garbage ==
    [name |-> "garbage", bias |-> 0, w_hr |-> 0, w_wd |-> 0, w_season |-> 0,
     badHr |-> -1, badWd |-> -1, badSeason |-> 0, bad |-> "raise"]

LinearModel ==
    [name |-> "linear", bias |-> -25, w_hr |-> 10, w_wd |-> 3, w_season |-> 4,
     badHr |-> -1, badWd |-> -1, badSeason |-> 0, bad |-> "raise"]

RaisingModel ==
    [name |-> "raising", bias |-> 12, w_hr |-> 35, w_wd |-> 7, w_season |-> 100,
     badHr |-> 4, badWd |-> 2, badSeason |-> 1, bad |-> "raise"]

NanModel ==
    [name |-> "nan", bias |-> 0, w_hr |-> 1, w_wd |-> 20, w_season |-> 0,
     badHr |-> 23, badWd |-> 6, badSeason |-> 0, bad |-> "nan"]

Artifacts == {LinearModel, RaisingModel, NanModel}

\* os.path.exists(MODEL_PATH) and, when it exists, the file's content
DiskStates ==
    {[exists |-> FALSE, content |-> NoModel]}
    \cup {[exists |-> TRUE, content |-> c] : c \in Artifacts \cup {Garbage}}

\* model.predict(row)[0]: "raise", "nan" or a number of tenths
model_predict(m, row) ==
    IF m = NoModel
    THEN [kind |-> "raise", tenths |-> 0]
    ELSE IF /\ Column(row, "hr") = m.badHr
            /\ Column(row, "weekday") = m.badWd
            /\ m.badSeason \in {0, Column(row, "season")}
         THEN [kind |-> m.bad, tenths |-> 0]
         ELSE [kind |-> "num",
               tenths |-> m.bias + m.w_hr * Column(row, "hr")
                          + m.w_wd * Column(row, "weekday")
                          + m.w_season * Column(row, "season")
                          + (Column(row, "temp") \div 10)]

\* Python int() of a float: truncation toward zero
PyInt(tenths) ==
    IF tenths >= 0 THEN tenths \div 10 ELSE -((-tenths) \div 10)

-----------------------------------------------------------------------------
(* predict(hour, wd): the row is built from the script's globals with the  *)
(* two arguments in the hr and weekday slots; the result is int() of the   *)
(* model's output.  A raise of model.predict, or int(NaN), propagates.     *)

\* variant: the hr slot is filled from the "Hour of Day" slider
FeatureRow_slider(hour, w) ==
    [columns |-> FEATURES,
     values |-> <<inputs.season, inputs.mnth, inputs.hr, inputs.holiday, w,
                  inputs.workingday, inputs.weathersit, inputs.temp,
                  inputs.atemp, inputs.hum, inputs.windspeed>>]

FeatureRow(hour, w) ==
    [columns |-> FEATURES,
     values |-> <<inputs.season, inputs.mnth, hour, inputs.holiday, w,
                  inputs.workingday, inputs.weathersit, inputs.temp,
                  inputs.atemp, inputs.hum, inputs.windspeed>>]

\* variant: a failing model call is caught and counted as 0
predict_swallow(hour, w) ==
    LET row == FeatureRow(hour, w)
        out == model_predict(model, row)
    IN  [row |-> row,
         ok |-> TRUE,
         value |-> IF out.kind = "num" THEN PyInt(out.tenths) ELSE 0]

predict(hour, w) ==
    LET row == FeatureRow(hour, w)
        out == model_predict(model, row)
    IN  [row |-> row,
         ok |-> out.kind = "num",
         value |-> IF out.kind = "num" THEN PyInt(out.tenths) ELSE 0]

-----------------------------------------------------------------------------
(* load_model under st.cache_resource: a cached value is returned without  *)
(* running the body; otherwise the body runs, and only a value it returns  *)
(* is cached (st.stop and a raise of joblib.load leave the cache empty).   *)

\* variant: no cache, the body runs on every execution of the script
load_model_uncached ==
    IF ~disk.exists
    THEN [status |-> "stop", value |-> NoModel, cache |-> cache,
          io |-> ioCount, error |-> NotFoundText]
    ELSE IF disk.content = Garbage
         THEN [status |-> "raise", value |-> NoModel, cache |-> cache,
               io |-> ioCount + 1, error |-> None]
         ELSE [status |-> "ok", value |-> disk.content,
               cache |-> disk.content, io |-> ioCount + 1, error |-> None]

\* variant: on a missing file the body reports and returns None, no st.stop
load_model_returns_none ==
    IF cache # NoModel
    THEN [status |-> "ok", value |-> cache, cache |-> cache, io |-> ioCount,
          error |-> None]
    ELSE IF ~disk.exists
         THEN [status |-> "ok", value |-> NoModel, cache |-> cache,
               io |-> ioCount, error |-> NotFoundText]
         ELSE IF disk.content = Garbage
              THEN [status |-> "raise", value |-> NoModel, cache |-> cache,
                    io |-> ioCount + 1, error |-> None]
              ELSE [status |-> "ok", value |-> disk.content,
                    cache |-> disk.content,
                    io |-> ioCount + 1, error |-> None]

\* variant: on a missing file the body stops without st.error
load_model_silent ==
    IF cache # NoModel
    THEN [status |-> "ok", value |-> cache, cache |-> cache, io |-> ioCount,
          error |-> None]
    ELSE IF ~disk.exists
         THEN [status |-> "stop", value |-> NoModel, cache |-> cache,
               io |-> ioCount, error |-> None]
         ELSE IF disk.content = Garbage
              THEN [status |-> "raise", value |-> NoModel, cache |-> cache,
                    io |-> ioCount + 1, error |-> None]
              ELSE [status |-> "ok", value |-> disk.content,
                    cache |-> disk.content,
                    io |-> ioCount + 1, error |-> None]

load_model ==
    IF cache # NoModel
    THEN [status |-> "ok", value |-> cache, cache |-> cache, io |-> ioCount,
          error |-> None]
    ELSE IF ~disk.exists
         THEN [status |-> "stop", value |-> NoModel, cache |-> cache,
               io |-> ioCount, error |-> NotFoundText]
         ELSE IF disk.content = Garbage
              THEN [status |-> "raise", value |-> NoModel, cache |-> cache,
                    io |-> ioCount + 1, error |-> None]
              ELSE [status |-> "ok", value |-> disk.content,
                    cache |-> disk.content,
                    io |-> ioCount + 1, error |-> None]

-----------------------------------------------------------------------------
Blank == [error |-> None, exception |-> FALSE, metric |-> None,
          table |-> None, chart |-> None]

Resting == {"start", "idle", "stopped", "load_error", "completed", "failed"}
Running == {"hourly", "daily"}

IsHourly(mode) == mode = "Hourly"

\* variant: day_total outlives the execution (kept like session state)
FreshLocals_carry ==
    /\ h' = 0
    /\ wd' = 0
    /\ day_total' = day_total
    /\ preds' = <<>>
    /\ daily_values' = <<>>
    /\ calls' = <<>>

\* the values every execution of the script starts from
FreshLocals ==
    /\ h' = 0
    /\ wd' = 0
    /\ day_total' = 0
    /\ preds' = <<>>
    /\ daily_values' = <<>>
    /\ calls' = <<>>

Init ==
    /\ disk \in DiskStates
    /\ cache = NoModel
    /\ ioCount = 0
    /\ inputs = DefaultInputs
    /\ pc = "start"
    /\ model = NoModel
    /\ h = 0
    /\ wd = 0
    /\ day_total = 0
    /\ preds = <<>>
    /\ daily_values = <<>>
    /\ calls = <<>>
    /\ shown = Blank

\* One execution of the script from its first line to the button test:
\* load_model, the widgets, and the branch on st.button.
ScriptTop(button) ==
    LET lm == load_model IN
    /\ pc \in Resting
    /\ lm.io <= MaxLoads
    /\ cache' = lm.cache
    /\ ioCount' = lm.io
    /\ model' = lm.value
    /\ FreshLocals
    /\ shown' = [Blank EXCEPT !.error = lm.error,
                              !.exception = (lm.status = "raise")]
    /\ pc' = CASE lm.status = "stop" -> "stopped"
               [] lm.status = "raise" -> "load_error"
               [] OTHER -> IF ~button THEN "idle"
                           ELSE IF IsHourly(inputs'.mode) THEN "hourly"
                           ELSE "daily"
    /\ UNCHANGED disk

\* the browser opens the page
PageLoad ==
    /\ pc = "start"
    /\ inputs' = inputs
    /\ ScriptTop(FALSE)

\* the user moves one widget: a rerun in which the button reads False
ChangeInput ==
    /\ pc # "start"
    /\ \E w \in WidgetNames : \E v \in WidgetChoices[w] :
          /\ v # inputs[w]
          /\ inputs' = [inputs EXCEPT ![w] = v]
    /\ ScriptTop(FALSE)

\* the user presses "Predict Demand": a rerun in which the button reads True
ClickPredict ==
    /\ pc # "start"
    /\ inputs' = inputs
    /\ ScriptTop(TRUE)

\* the file at MODEL_PATH is installed, replaced, damaged or removed
DiskChange ==
    /\ pc \in Resting
    /\ \E d \in DiskStates : d # disk /\ disk' = d
    /\ UNCHANGED <<cache, ioCount, inputs, pc, model, h, wd, day_total, preds,
                   daily_values, calls, shown>>

\* an exception leaves the script: Streamlit shows it and the run is over
Abort ==
    /\ pc' = "failed"
    /\ shown' = [shown EXCEPT !.exception = TRUE]

\* the table and the chart drawn from df after the branch
Render(df, label, total) ==
    [shown EXCEPT !.metric = <<label, total>>,
                  !.table = df,
                  !.chart = [xlabel |-> df.columns[1], ylabel |-> df.columns[2],
                             x |-> df.col1, y |-> df.col2]]

RECURSIVE Sum(_)
Sum(s) == IF s = <<>> THEN 0 ELSE Head(s) + Sum(Tail(s))

\* variant: all 24 hours of the day
hours_all == [i \in 1 .. DayHours |-> i - 1]

\* list(range(7))
hours == [i \in 1 .. HourlySteps |-> i - 1]

\* preds = [predict(h, weekday) for h in hours], one element per step
HourlyStep ==
    /\ pc = "hourly"
    /\ h < Len(hours)
    /\ LET p == predict(hours[h + 1], inputs.weekday) IN
          /\ calls' = Append(calls, p.row)
          /\ IF p.ok
             THEN /\ preds' = Append(preds, p.value)
                  /\ h' = h + 1
                  /\ UNCHANGED <<pc, shown>>
             ELSE /\ Abort
                  /\ UNCHANGED <<preds, h>>
    /\ UNCHANGED <<disk, cache, ioCount, inputs, model, wd, day_total,
                   daily_values>>

\* df, st.metric, the table and the chart of the hourly branch
HourlyFinish ==
    /\ pc = "hourly"
    /\ h = Len(hours)
    /\ shown' = Render([columns |-> <<"Hour", "Predicted Rentals">>,
                        col1 |-> hours, col2 |-> preds],
                       "Total Rentals (7 Hours)", Sum(preds))
    /\ pc' = "completed"
    /\ UNCHANGED <<disk, cache, ioCount, inputs, model, h, wd, day_total,
                   preds, daily_values, calls>>

\* day_total += predict(h, wd)
DailyStep ==
    /\ pc = "daily"
    /\ wd < WeekDays
    /\ h < DayHours
    /\ LET p == predict(h, wd) IN
          /\ calls' = Append(calls, p.row)
          /\ IF p.ok
             THEN /\ day_total' = day_total + p.value
                  /\ h' = h + 1
                  /\ UNCHANGED <<pc, shown>>
             ELSE /\ Abort
                  /\ UNCHANGED <<day_total, h>>
    /\ UNCHANGED <<disk, cache, ioCount, inputs, model, wd, preds,
                   daily_values>>

\* variant: day_total = 0 sits before the outer loop, not inside it
DailyDayEnd_keepTotal ==
    /\ pc = "daily"
    /\ wd < WeekDays
    /\ h = DayHours
    /\ daily_values' = Append(daily_values, day_total)
    /\ wd' = wd + 1
    /\ h' = 0
    /\ UNCHANGED <<disk, cache, ioCount, inputs, pc, model, day_total, preds,
                   calls, shown>>

\* daily_values.append(day_total); the next wd starts with day_total = 0
DailyDayEnd ==
    /\ pc = "daily"
    /\ wd < WeekDays
    /\ h = DayHours
    /\ daily_values' = Append(daily_values, day_total)
    /\ wd' = wd + 1
    /\ h' = 0
    /\ day_total' = 0
    /\ UNCHANGED <<disk, cache, ioCount, inputs, pc, model, preds, calls, shown>>

\* df, st.metric, the table and the chart of the daily branch
DailyFinish ==
    /\ pc = "daily"
    /\ wd = WeekDays
    /\ shown' = Render([columns |-> <<"Day", "Predicted Rentals">>,
                        col1 |-> day_names, col2 |-> daily_values],
                       "Total Rentals (7 Days)", Sum(daily_values))
    /\ pc' = "completed"
    /\ UNCHANGED <<disk, cache, ioCount, inputs, model, h, wd, day_total,
                   preds, daily_values, calls>>

Next ==
    \/ PageLoad
    \/ ChangeInput
    \/ ClickPredict
    \/ DiskChange
    \/ HourlyStep
    \/ HourlyFinish
    \/ DailyStep
    \/ DailyDayEnd
    \/ DailyFinish

Spec == Init /\ [][Next]_vars

-----------------------------------------------------------------------------
(* What the properties below compare the program's results with.           *)

\* int(model.predict(row)[0]) for the row of step (hour, w) under the
\* inputs and the model of the current execution
Prediction(hour, w) == PyInt(model_predict(model, FeatureRow(hour, w)).tenths)

\* whether the model call of step (hour, w) fails (raise, or NaN into int)
StepFails(hour, w) == model_predict(model, FeatureRow(hour, w)).kind # "num"

RECURSIVE SumHours(_, _)
\* the predictions of weekday w over hours 0 .. n-1, added up
SumHours(w, n) == IF n = 0 THEN 0 ELSE SumHours(w, n - 1) + Prediction(n - 1, w)

HourlyDone == pc = "completed" /\ inputs.mode = "Hourly"
DailyDone == pc = "completed" /\ inputs.mode = "Daily"

NothingForecast ==
    shown.metric = <<>> /\ shown.table = <<>> /\ shown.chart = <<>>

\* C1: a completed hourly run shows exactly 7 points, hours 0..6 ascending,
\* point h being the prediction for hour h on the selected weekday, and the
\* total shown is the sum of the 7 values.
C1_HourlySeries ==
    HourlyDone =>
        /\ shown.table.col1 = <<0, 1, 2, 3, 4, 5, 6>>
        /\ Len(shown.table.col2) = 7
        /\ \A hh \in 0 .. 6 :
              shown.table.col2[hh + 1] = Prediction(hh, inputs.weekday)
        /\ shown.metric[2] =
              shown.table.col2[1] + shown.table.col2[2] + shown.table.col2[3]
              + shown.table.col2[4] + shown.table.col2[5] + shown.table.col2[6]
              + shown.table.col2[7]
        /\ shown.chart.x = shown.table.col1
        /\ shown.chart.y = shown.table.col2

C1_Witness ==
    /\ HourlyDone
    /\ inputs.weekday = 3
    /\ inputs.season = 2
    /\ model = RaisingModel
    /\ shown.metric[2] > 0

\* C2: a completed daily run shows exactly 7 points labelled Mon..Sun in that
\* order, the point of weekday w being the sum of the 24 hourly predictions
\* of w, and the total shown is the sum of the 7 daily sums.
C2_DailySeries ==
    DailyDone =>
        /\ shown.table.col1 = <<"Mon", "Tue", "Wed", "Thu", "Fri", "Sat", "Sun">>
        /\ Len(shown.table.col2) = 7
        /\ \A w \in 0 .. 6 : shown.table.col2[w + 1] = SumHours(w, 24)
        /\ shown.metric[2] =
              shown.table.col2[1] + shown.table.col2[2] + shown.table.col2[3]
              + shown.table.col2[4] + shown.table.col2[5] + shown.table.col2[6]
              + shown.table.col2[7]

C2_Witness ==
    /\ DailyDone
    /\ model = LinearModel
    /\ shown.table.col2[1] # shown.table.col2[7]
    /\ shown.metric[2] > 0

ContextFields ==
    {"season", "mnth", "holiday", "workingday", "weathersit", "temp", "atemp",
     "hum", "windspeed"}

\* C3: a completed run has called the model exactly 7 times in hourly mode
\* (hr 0..6, weekday the selected one) and exactly 168 times in daily mode
\* (each (weekday, hr) of 0..6 x 0..23 exactly once), with the same 9 context
\* fields in every call.
C3_CallCount ==
    /\ HourlyDone =>
          /\ Len(calls) = 7
          /\ \A hh \in 0 .. 6 :
                Cardinality({i \in 1 .. Len(calls) :
                                Column(calls[i], "hr") = hh}) = 1
          /\ \A i \in 1 .. Len(calls) :
                Column(calls[i], "weekday") = inputs.weekday
    /\ DailyDone =>
          /\ Len(calls) = 168
          /\ \A w \in 0 .. 6 : \A hh \in 0 .. 23 :
                Cardinality({i \in 1 .. Len(calls) :
                                /\ Column(calls[i], "hr") = hh
                                /\ Column(calls[i], "weekday") = w}) = 1
    /\ pc = "completed" =>
          \A i \in 1 .. Len(calls) : \A f \in ContextFields :
              /\ Column(calls[i], f) = Column(calls[1], f)
              /\ Column(calls[i], f) = inputs[f]

C3_Witness ==
    /\ DailyDone
    /\ Len(calls) = 168
    /\ inputs.season = 2
    /\ inputs.weekday = 5

Mentions(text, part) ==
    \E i \in 1 .. Len(text) :
        /\ i + Len(part) - 1 <= Len(text)
        /\ SubSeq(text, i, i + Len(part) - 1) = part

\* C5 as stated: the error shown for a missing model file names the path.
C5_ErrorNamesPath ==
    pc = "stopped" => Mentions(shown.error, MODEL_PATH)

\* C5 as amended: the error shown for a missing model file is the fixed text
\* "Model file not found", which does not name the path.
C5_ErrorIsFixedText ==
    pc = "stopped" =>
        /\ shown.error = <<"[x]", "Model", "file", "not", "found">>
        /\ ~Mentions(shown.error, MODEL_PATH)
        /\ ~Mentions(shown.error, <<"bike_demand_model.pkl">>)

C5_Witness ==
    pc = "stopped" /\ ~disk.exists /\ shown.error # <<>>

\* C6: once a load has succeeded the process never reads the file again, and
\* every later execution of the script gets the cached instance, which is
\* never replaced, whatever happens to the file.
C6_LoadOnce ==
    [][(cache # NoModel) =>
          /\ cache' = cache
          /\ ioCount' = ioCount
          /\ model = cache
          /\ model' = cache]_vars

C6_Witness ==
    /\ cache = LinearModel
    /\ disk.exists
    /\ disk.content = NanModel
    /\ pc = "daily"
    /\ model = LinearModel
    /\ ioCount = 2

\* the calls of the current execution on which the model call failed
FailedCalls ==
    {i \in 1 .. Len(calls) : model_predict(model, calls[i]).kind # "num"}

\* C7: if a model call fails during a run, the run fails there: the failing
\* call is the last one made (no retry, nothing after it), no total, table or
\* chart is shown, and the exception reaches the page.
C7_FailureAborts ==
    /\ FailedCalls # {} =>
          /\ pc = "failed"
          /\ FailedCalls = {Len(calls)}
          /\ NothingForecast
          /\ shown.exception = TRUE
    /\ pc = "failed" => FailedCalls # {}

C7_Witness ==
    /\ pc = "failed"
    /\ inputs.mode = "Daily"
    /\ Len(calls) = 168
    /\ NothingForecast

\* the hour and the weekday of the i-th model call of a run
StepHour(i) == IF inputs.mode = "Hourly" THEN i - 1 ELSE (i - 1) % 24
StepWeekday(i) == IF inputs.mode = "Hourly" THEN inputs.weekday ELSE (i - 1) \div 24

\* C8: every row handed to the model has the 11 fields in the order season,
\* mnth, hr, holiday, weekday, workingday, weathersit, temp, atemp, hum,
\* windspeed, with the step's hour in hr and the step's weekday in weekday.
C8_FeatureOrder ==
    \A i \in 1 .. Len(calls) :
        /\ calls[i].columns =
              <<"season", "mnth", "hr", "holiday", "weekday", "workingday",
                "weathersit", "temp", "atemp", "hum", "windspeed">>
        /\ calls[i].values =
              <<inputs.season, inputs.mnth, StepHour(i), inputs.holiday,
                StepWeekday(i), inputs.workingday, inputs.weathersit,
                inputs.temp, inputs.atemp, inputs.hum, inputs.windspeed>>

C8_Witness ==
    /\ pc = "daily"
    /\ Len(calls) = 100
    /\ inputs.hr = 3
    /\ inputs.weekday = 6
    /\ inputs.season = 2

\* C9 as stated: every predicted count, daily sum and total is >= 0.
C9_NonNegative ==
    /\ \A i \in 1 .. Len(preds) : preds[i] >= 0
    /\ \A i \in 1 .. Len(daily_values) : daily_values[i] >= 0
    /\ day_total >= 0
    /\ shown.metric # <<>> => shown.metric[2] >= 0

\* the result a run must have, from the inputs and the model alone
HourlyFails == \E hh \in 0 .. 6 : StepFails(hh, inputs.weekday)
DailyFails == \E w \in 0 .. 6 : \E hh \in 0 .. 23 : StepFails(hh, w)
RunFails == IF inputs.mode = "Hourly" THEN HourlyFails ELSE DailyFails
RunSeries ==
    IF inputs.mode = "Hourly"
    THEN [i \in 1 .. 7 |-> Prediction(i - 1, inputs.weekday)]
    ELSE [i \in 1 .. 7 |-> SumHours(i - 1, 24)]

\* C10: a trigger is taken only when no run is in progress and starts from
\* fresh accumulators; a run in progress ends in completed or failed; and
\* what a finished run shows is decided by the inputs, the mode and the model
\* of that trigger alone.
C10_FreshRun ==
    /\ [][(pc = "hourly" \/ pc = "daily") =>
             (pc' = pc \/ pc' = "completed" \/ pc' = "failed")]_vars
    /\ [][(pc' \in {"hourly", "daily"} /\ pc' # pc) =>
             /\ pc \in {"idle", "completed", "failed", "stopped", "load_error"}
             /\ preds' = <<>>
             /\ daily_values' = <<>>
             /\ day_total' = 0
             /\ h' = 0
             /\ wd' = 0
             /\ calls' = <<>>
             /\ shown'.metric = <<>> /\ shown'.table = <<>> /\ shown'.chart = <<>>]_vars
    /\ [](pc = "failed" => RunFails /\ NothingForecast)
    /\ [](pc = "completed" =>
             /\ ~RunFails
             /\ shown.table.col2 = RunSeries
             /\ shown.metric[2] = Sum(RunSeries))

C10_Witness ==
    /\ pc = "completed"
    /\ inputs.mode = "Hourly"
    /\ model = RaisingModel
    /\ inputs.weekday = 2
    /\ inputs.season = 2
    /\ ioCount = 2

====
